---- MODULE Spec2Model ----
(***************************************************************************)
(* A model of code-graph's core: the language adapters (src/src/lang.rs),  *)
(* the outline walk and the call-site walk (src/src/lib.rs), and the graph *)
(* they fill.                                                              *)
(*                                                                         *)
(* Text is a sequence of one-character strings, so that concatenation,     *)
(* the trailing separator and the split at "(" are computed as the code    *)
(* computes them.  A syntax tree is a sequence of nodes numbered in        *)
(* pre-order (node 1 is the root); each node carries what the code reads   *)
(* of a tree_sitter::Node: its kind, the field name under which its parent *)
(* holds it, its parent, its text (code[node.byte_range()]) and its start  *)
(* row.  Graph indices are 0-based as in the code: the record of index i   *)
(* is nodes[i + 1].                                                        *)
(***************************************************************************)
EXTENDS Naturals, Sequences, FiniteSets, TLC

\* Largest number of nodes of a syntax tree.
MaxNodes == 4
\* Largest number of fetch_symbols and fetch_calls calls in a run.
MaxFetches == 2
\* Largest number of nodes of a syntax tree handed to fetch_calls alone.
MaxCallNodes == 6
\* Largest number of declarators of a JS lexical declaration.
MaxDeclarators == 2
\* Largest number of entries of the project directory.
MaxEntries == 2
\* Largest number of folder picks in a run of the application.
MaxScans == 2
\* Largest number of records, and of edges, a caller of Graph pushes itself.
MaxPushes == 2

VARIABLES
    query,       \* the adapter in use (Box<dyn SymbolQuery>)
    tree,        \* the syntax tree the parser produced for the file
    path,        \* the path argument of the fetch_symbols call in progress / last made
    graph,       \* Graph {nodes, edges, focus_node}
    stack,       \* pending recursion_outline calls, innermost first
    calls,       \* the Vec<CodeNode> the last fetch_calls returned
    calls_path,  \* the path argument of the last fetch_calls call (empty: none yet)
    pc,          \* Spec: "idle" | "outline"; SpecAdapter: "start" | "selected" |
                 \* "parsed" | "definitions" | "calls"
    fetches,     \* number of fetch_symbols and fetch_calls calls made
    root_index,  \* history: the index add_node gave the root record of the last fetch_symbols
    ext,         \* the extension handed to get_symbol_query
    def_out,     \* get_definition's answer for every node of tree
    call_out,    \* get_call's answer for every node of tree
    prev_graph,  \* history (Spec): the graph the last GraphClear emptied (None: none yet)
    prev_calls,  \* history: the list the fetch_calls call before the last returned
    project,     \* the entries of the project directory, in read_dir order
    app_tree,    \* MyApp.tree: the file tree shown
    call_nodes,  \* MyApp.call_nodes: the project call index
    filter_call_nodes,  \* MyApp.filter_call_nodes: the related-call list
    current_node,       \* MyApp.current_node
    project_root_path,  \* MyApp.project_root_path
    root_path,   \* MyApp.root_path
    rx,          \* MyApp.rx: the receiver of the scan it names (None: none)
    scans,       \* the worker threads spawned so far, oldest first
    dialog,      \* the message dialog the last file selection showed ("": none)
    storage      \* the app_state string of eframe's storage: the root_path saved
                 \* (None: nothing saved yet)

\* The history variables of the walks.
histVars == <<prev_graph, prev_calls>>

\* The fields of MyApp and what surrounds it: the directory, the worker
\* threads, the dialog.
appVars == <<project, app_tree, call_nodes, filter_call_nodes, current_node,
             project_root_path, root_path, rx, scans, dialog, storage>>

vars == <<query, tree, path, graph, stack, calls, calls_path, pc, fetches,
          root_index, ext, def_out, call_out, histVars, appVars>>

----------------------------------------------------------------------------
(* Option<T>: None is the empty sequence, Some(x) the one-element sequence. *)

None == <<>>

Some(x) == <<x>>

MinOf(S) == CHOOSE x \in S : \A y \in S : x <= y

----------------------------------------------------------------------------
(* Syntax trees, as the external parser hands them over.                   *)

RECURSIVE AncestorsOrSelf(_, _)
\* The nodes on the path from node i up to the root, in the parent vector p.
AncestorsOrSelf(p, i) ==
    IF i = 0 THEN {}
    ELSE {i} \cup (IF p[i] < i THEN AncestorsOrSelf(p, p[i]) ELSE {})

\* The parent vectors of the trees of n nodes numbered in pre-order.
PreOrderShapes(n) ==
    { p \in [1..n -> 0..(n - 1)] :
        /\ p[1] = 0
        /\ \A i \in 2..n : p[i] \in AncestorsOrSelf(p, i - 1) }

\* The ids of the direct children of node n, in order, in the parent vector p.
ShapeKids(p, n) ==
    SelectSeq([i \in 1..Len(p) |-> i], LAMBDA i : p[i] = n)

RECURSIVE JoinLines(_)
\* The texts of consecutive tokens, one token per source line.
JoinLines(texts) ==
    IF texts = <<>> THEN <<>>
    ELSE IF Len(texts) = 1 THEN texts[1]
    ELSE texts[1] \o <<"\n">> \o JoinLines(Tail(texts))

RECURSIVE SpanText(_, _, _)
\* code[node.byte_range()]: a leaf's own text, else the span of its children.
SpanText(p, s, n) ==
    LET kids == ShapeKids(p, n)
    IN  IF kids = <<>> THEN s[n].text
        ELSE JoinLines([k \in 1..Len(kids) |-> SpanText(p, s, kids[k])])

\* node.start_position().row: the number of tokens (leaves) before the node.
StartRow(p, n) ==
    Cardinality({ m \in 1..(n - 1) : ShapeKids(p, m) = <<>> })

\* The tree of shape p whose node i is of sort s[i].
BuildTree(p, s) ==
    [ i \in 1..Len(p) |->
        [ kind   |-> s[i].kind,
          field  |-> s[i].field,
          parent |-> p[i],
          text   |-> SpanText(p, s, i),
          row    |-> StartRow(p, i) ] ]

\* The sorts of a tree of n nodes: the root's, then those of the other nodes.
WithRoot(r, rest) == [ i \in 1..(1 + Len(rest)) |-> IF i = 1 THEN r ELSE rest[i - 1] ]

\* A node sort: the kind, the field name under which the parent holds the
\* node, and the text of the node when it has no children.
Sort(k, f, t) == [kind |-> k, field |-> f, text |-> t, token |-> FALSE]

\* The sort of a token: a node that never has children.
Token(k, f, t) == [kind |-> k, field |-> f, text |-> t, token |-> TRUE]

\* No token has a child.
TokensAreLeaves(p, s) == \A i \in 2..Len(p) : ~s[p[i]].token

----------------------------------------------------------------------------
(* tree_sitter::Node, as the adapters and the walks use it.                *)

\* node.children(&mut node.walk())
children(t, n) == SelectSeq([i \in 1..Len(t) |-> i], LAMBDA i : t[i].parent = n)

\* node.child_by_field_name(f): the first child held under field f.
child_by_field_name(t, n, f) ==
    LET hits == SelectSeq(children(t, n), LAMBDA c : t[c].field = f)
    IN  IF hits = <<>> THEN None ELSE Some(hits[1])

----------------------------------------------------------------------------
(* CodeNode and Graph (src/src/lib.rs).                                     *)

\* CodeNode::new. node is a history field: the syntax node the record was
\* made from (0: none); the code keeps no such field.
CodeNode_new(id, label, block, file_location, block_type, level) ==
    [ id            |-> id,
      label         |-> label,
      block         |-> block,
      file_location |-> file_location,
      file_path     |-> <<>>,
      level         |-> level,
      block_type    |-> block_type,
      node          |-> 0 ]

\* Uuid::new_v4(): a value no other record has. walk and run name the call
\* that made it, n the syntax node.
Uuid(walk, run, n) == <<walk, run, n>>

Graph_new == [nodes |-> <<>>, edges |-> <<>>, focus_node |-> None]

\* A push that puts the record in front of those the graph holds.
add_node_front(g, node) ==
    [ graph |-> [g EXCEPT !.nodes = <<node>> \o g.nodes],
      index |-> Len(g.nodes) ]

\* Graph::add_node: the graph after the push, and the index returned.
add_node(g, node) ==
    [ graph |-> [g EXCEPT !.nodes = Append(g.nodes, node)],
      index |-> Len(g.nodes) ]

\* A push that records the edge the wrong way round.
add_edge_reversed(g, from, to) ==
    [g EXCEPT !.edges = Append(g.edges, [from |-> to, to |-> from])]

\* Graph::add_edge
add_edge(g, from, to) ==
    [g EXCEPT !.edges = Append(g.edges, [from |-> from, to |-> to])]

\* A clear that drops the focus and keeps the records and the edges.
Graph_clear_focus_only(g) == [g EXCEPT !.focus_node = None]

\* Graph::clear
Graph_clear(g) == [nodes |-> <<>>, edges |-> <<>>, focus_node |-> None]

\* self.nodes[index]
node_at(g, i) == g.nodes[i + 1]

\* CodeNode::default()
CodeNode_default == CodeNode_new(<<>>, <<>>, <<>>, 0, "NORMAL", 0)

\* Tree::new(name, full_path, tree_type)
Tree_new(name, full_path, tree_type) ==
    [label |-> name, full_path |-> full_path, children |-> <<>>,
     tree_type |-> tree_type]

\* No walk has been made yet.
NoHistory ==
    /\ prev_graph = None
    /\ prev_calls = None

\* MyApp::default(), before a folder is picked; no directory, no worker.
NoApp ==
    /\ project = <<>>
    /\ app_tree = Tree_new(<<>>, <<>>, "File")
    /\ call_nodes = <<>>
    /\ filter_call_nodes = <<>>
    /\ current_node = CodeNode_default
    /\ project_root_path = None
    /\ root_path = <<>>
    /\ rx = None
    /\ scans = <<>>
    /\ dialog = ""
    /\ storage = None

----------------------------------------------------------------------------
(* The language adapters (src/src/lang.rs).                                *)

Queries == {"RustQuery", "CQuery", "JavaQuery", "JsQuery"}

\* The entry of a definition_list the `for (root_type, end_type)` loop stops at.
first_match(definition_list, node_type) ==
    LET hits == { i \in 1..Len(definition_list) : definition_list[i][1] = node_type }
    IN  IF hits = {} THEN None ELSE Some(definition_list[MinOf(hits)])

RECURSIVE push_children(_, _, _)
\* for child in node.children(..) { if child.kind() == end_type { break }
\*   else { output.push_str(text); output.push(' ') } }
push_children(t, kids, end_type) ==
    IF kids = <<>> THEN <<>>
    ELSE IF t[Head(kids)].kind = end_type THEN <<>>
    ELSE t[Head(kids)].text \o <<" ">> \o push_children(t, Tail(kids), end_type)

\* A record whose label depends on the call that made it.
node_record_run_label(t, n, at, id, label, block_type) ==
    Some([CodeNode_new(id, label \o <<IF id[2] = 0 THEN "a" ELSE "b">>,
                       t[n].text, t[at].row + 1, block_type, 0)
            EXCEPT !.node = n])

\* The record an adapter returns for node n: CodeNode::new(uuid, label,
\* &code[node.byte_range()], at.start_position().row + 1, block_type, 0).
node_record(t, n, at, id, label, block_type) ==
    Some([CodeNode_new(id, label, t[n].text, t[at].row + 1, block_type, 0)
            EXCEPT !.node = n])

JsQuery_definition_list ==
    << <<"function_declaration", "formal_parameters">>,
       <<"class_declaration", "class_body">>,
       <<"method_definition", "formal_parameters">> >>

JsQuery_block_type(root_type) ==
    CASE root_type = "function_declaration" -> "FUNCTION"
      [] root_type = "method_definition" -> "FUNCTION"
      [] root_type = "class_declaration" -> "CLASS"
      [] OTHER -> "NORMAL"

RECURSIVE push_declarators(_, _)
\* for child in node.children(..) { if "variable_declarator" == child.kind()
\*   { if let Some(name) = child name field { push " "; push name text } } }
push_declarators(t, kids) ==
    IF kids = <<>> THEN <<>>
    ELSE LET child == Head(kids)
             name == child_by_field_name(t, child, "name")
         IN  (IF t[child].kind = "variable_declarator" /\ name # None
              THEN <<" ">> \o t[name[1]].text ELSE <<>>)
             \o push_declarators(t, Tail(kids))

JsQuery_get_definition(t, n, id) ==
    LET node_type == t[n].kind
        entry == first_match(JsQuery_definition_list, node_type)
    IN  IF entry # None
        THEN node_record(t, n, n, id,
                         push_children(t, children(t, n), entry[1][2]),
                         JsQuery_block_type(entry[1][1]))
        ELSE IF /\ node_type = "lexical_declaration"
                /\ t[n].parent # 0
                /\ t[t[n].parent].kind = "program"
        THEN LET kind_node == child_by_field_name(t, n, "kind")
                 output == (IF kind_node # None THEN t[kind_node[1]].text ELSE <<>>)
                           \o push_declarators(t, children(t, n))
             IN  node_record(t, n, n, id, output, "CONST")
        ELSE None

CQuery_definition_list == << <<"function_definition", "compound_statement">> >>

CQuery_block_type(root_type) ==
    CASE root_type = "function_definition" -> "FUNCTION"
      [] root_type = "struct_item" -> "STRUCT"
      [] OTHER -> "NORMAL"

RECURSIVE take_until(_, _)
\* The part of s before the first ch (all of s when it holds none).
take_until(s, ch) ==
    IF s = <<>> THEN <<>>
    ELSE IF Head(s) = ch THEN <<>>
    ELSE <<Head(s)>> \o take_until(Tail(s), ch)

\* s.split(ch).next(): str::split yields a first piece for every s, the
\* empty piece included, so the answer is always Some.
split_next(s, ch) == Some(take_until(s, ch))

\* Option::unwrap_or
unwrap_or(opt, default) == IF opt = None THEN default ELSE opt[1]

bad_symbol == <<"b", "a", "d", " ", "s", "y", "m", "b", "o", "l">>

CQuery_get_definition(t, n, id) ==
    LET node_type == t[n].kind
        entry == first_match(CQuery_definition_list, node_type)
    IN  IF entry # None
        THEN LET output == push_children(t, children(t, n), entry[1][2])
             IN  node_record(t, n, n, id,
                             unwrap_or(split_next(output, "("), bad_symbol),
                             CQuery_block_type(entry[1][1]))
        ELSE None

JavaQuery_definition_list ==
    << <<"class_declaration", "class_body">>,
       <<"method_declaration", "formal_parameters">>,
       <<"interface_declaration", "interface_body">> >>

JavaQuery_block_type(root_type) ==
    CASE root_type = "method_declaration" -> "FUNCTION"
      [] root_type = "class_declaration" -> "CLASS"
      [] root_type = "interface_declaration" -> "CLASS"
      [] OTHER -> "NORMAL"

JavaQuery_get_definition(t, n, id) ==
    LET node_type == t[n].kind
        entry == first_match(JavaQuery_definition_list, node_type)
    IN  IF entry # None
        THEN node_record(t, n, n, id,
                         push_children(t, children(t, n), entry[1][2]),
                         JavaQuery_block_type(entry[1][1]))
        ELSE None

RustQuery_definition_list ==
    << <<"function_item", "parameters">>,
       <<"impl_item", "declaration_list">>,
       <<"struct_item", "field_declaration_list">>,
       <<"trait_item", "declaration_list">>,
       <<"function_signature_item", "parameters">> >>

RustQuery_block_type(root_type) ==
    CASE root_type = "function_item" -> "FUNCTION"
      [] root_type = "struct_item" -> "STRUCT"
      [] root_type = "function_signature_item" -> "FUNCTION"
      [] root_type = "trait_item" -> "CLASS"
      [] root_type = "impl_item" -> "CLASS"
      [] OTHER -> "NORMAL"

RustQuery_get_definition(t, n, id) ==
    LET node_type == t[n].kind
        entry == first_match(RustQuery_definition_list, node_type)
    IN  IF entry # None
        THEN node_record(t, n, n, id,
                         push_children(t, children(t, n), entry[1][2]),
                         RustQuery_block_type(entry[1][1]))
        ELSE None

\* A get_call that labels every call with the whole callee expression.
RustQuery_get_call_whole_callee(t, n, id) ==
    IF t[n].kind = "call_expression"
    THEN LET fe == child_by_field_name(t, n, "function")
         IN  IF fe # None
             THEN node_record(t, n, fe[1], id, t[fe[1]].text, "CALL")
             ELSE None
    ELSE None

RustQuery_get_call(t, n, id) ==
    IF t[n].kind = "call_expression"
    THEN LET fe == child_by_field_name(t, n, "function")
         IN  IF fe # None
             THEN LET fi == child_by_field_name(t, fe[1], "field")
                  IN  IF fi # None
                      THEN node_record(t, n, fi[1], id, t[fi[1]].text, "CALL")
                      ELSE node_record(t, n, fe[1], id, t[fe[1]].text, "CALL")
             ELSE None
    ELSE None

CQuery_get_call(t, n, id) ==
    IF t[n].kind = "call_expression"
    THEN LET fe == child_by_field_name(t, n, "function")
         IN  IF fe # None
             THEN LET fi == child_by_field_name(t, fe[1], "field")
                  IN  IF fi # None
                      THEN node_record(t, n, fi[1], id, t[fi[1]].text, "CALL")
                      ELSE node_record(t, n, fe[1], id, t[fe[1]].text, "CALL")
             ELSE None
    ELSE None

JsQuery_get_call(t, n, id) ==
    IF t[n].kind = "call_expression"
    THEN LET fe == child_by_field_name(t, n, "function")
         IN  IF fe # None
             THEN LET fi == child_by_field_name(t, fe[1], "property")
                  IN  IF fi # None
                      THEN node_record(t, n, fi[1], id, t[fi[1]].text, "CALL")
                      ELSE node_record(t, n, fe[1], id, t[fe[1]].text, "CALL")
             ELSE None
    ELSE None

JavaQuery_get_call(t, n, id) ==
    IF t[n].kind = "method_invocation"
    THEN LET fe == child_by_field_name(t, n, "name")
         IN  IF fe # None
             THEN node_record(t, n, fe[1], id, t[fe[1]].text, "CALL")
             ELSE None
    ELSE None

\* symbol_query.get_definition(code, &node) on a Box<dyn SymbolQuery>
get_definition(q, t, n, id) ==
    CASE q = "JsQuery" -> JsQuery_get_definition(t, n, id)
      [] q = "CQuery" -> CQuery_get_definition(t, n, id)
      [] q = "JavaQuery" -> JavaQuery_get_definition(t, n, id)
      [] q = "RustQuery" -> RustQuery_get_definition(t, n, id)

\* symbol_query.get_call(code, &node) on a Box<dyn SymbolQuery>
get_call(q, t, n, id) ==
    CASE q = "JsQuery" -> JsQuery_get_call(t, n, id)
      [] q = "CQuery" -> CQuery_get_call(t, n, id)
      [] q = "JavaQuery" -> JavaQuery_get_call(t, n, id)
      [] q = "RustQuery" -> RustQuery_get_call(t, n, id)

\* An extension test that admits every extension.
valid_file_extention_any(extension_) == TRUE

valid_file_extention(extension) == extension \in {"rs", "c", "h", "java"}

get_symbol_query(extention) ==
    CASE extention = "rs" -> "RustQuery"
      [] extention = "java" -> "JavaQuery"
      [] extention = "c" -> "CQuery"
      [] extention = "h" -> "CQuery"
      [] OTHER -> "RustQuery"

----------------------------------------------------------------------------
(* The two walks (src/src/lib.rs).                                         *)

\* let mut nodes = vec![]; if let Some(mut node) = code_node
\*   { node.file_path = path; nodes.push(node) }
call_own(code_node, p) ==
    IF code_node # None THEN << [code_node[1] EXCEPT !.file_path = p] >> ELSE <<>>

\* A merge that puts a child's calls in front of what was found before it.
call_extend_front(nodes, sub_nodes) == sub_nodes \o nodes

\* for sub_node in sub_nodes { nodes.push(sub_node) }
call_extend(nodes, sub_nodes) == nodes \o sub_nodes

RECURSIVE recursion_call(_, _, _, _, _)
RECURSIVE call_children(_, _, _, _, _, _)
\* for child in node.children(..) { let sub_nodes = recursion_call(child, ..); .. }
call_children(q, t, kids, p, run, nodes) ==
    IF kids = <<>> THEN nodes
    ELSE call_children(q, t, Tail(kids), p, run,
                       call_extend(nodes, recursion_call(q, t, Head(kids), p, run)))

recursion_call(q, t, n, p, run) ==
    call_children(q, t, children(t, n), p, run,
                  call_own(get_call(q, t, n, Uuid("call", run, n)), p))

\* fetch_calls: parse, then recursion_call from the root node.
fetch_calls(p, t, q, run) == recursion_call(q, t, 1, p, run)

\* A root record that is given the level of a first definition.
root_code_node_level_one(p, code, id) ==
    CodeNode_new(id, p, code, 0, "NORMAL", 1)

\* fetch_symbols: let root_code_node = CodeNode::new(uuid, path, code, 0, NORMAL, 0)
root_code_node(p, code, id) ==
    CodeNode_new(id, p, code, 0, "NORMAL", 0)

\* A walk whose parent handle never moves to the new record.
outline_current_id_stuck(code_node, parent_id, index) == parent_id

\* let mut current_id = parent_id; if let Some(..) = code_node { current_id = index }
outline_current_id(code_node, parent_id, index) ==
    IF code_node # None THEN index ELSE parent_id

\* A walk that goes below a node only when the node gave a record.
outline_children_of_definitions(t, n, code_node, current_id, level) ==
    IF code_node = None THEN <<>>
    ELSE LET kids == children(t, n)
         IN  [ k \in 1..Len(kids) |->
                 [node |-> kids[k], parent_id |-> current_id, level |-> level + 1] ]

\* for child in node.children(..) { recursion_outline(child, current_id, path,
\*   code, level + 1, symbol_query, graph) }: the calls to make, in order.
outline_children(t, n, code_node, current_id, level) ==
    LET kids == children(t, n)
    IN  [ k \in 1..Len(kids) |->
            [node |-> kids[k], parent_id |-> current_id, level |-> level + 1] ]

\* A walk that pushes a record for every node, recognized or not.
outline_visit_every_node(g, code_node, parent_id, p, level) ==
    LET record == IF code_node # None THEN code_node[1]
                  ELSE CodeNode_new(<<>>, <<>>, <<>>, 0, "NORMAL", 0)
        added == add_node(g, [record EXCEPT !.file_path = p, !.level = level])
    IN  add_edge(added.graph, parent_id, added.index)

\* The body of recursion_outline up to its loop: the graph after it.
outline_visit(g, code_node, parent_id, p, level) ==
    IF code_node # None
    THEN LET added == add_node(g, [code_node[1] EXCEPT !.file_path = p,
                                                       !.level = level])
         IN  add_edge(added.graph, parent_id, added.index)
    ELSE g

----------------------------------------------------------------------------
(* Spec: fetch_symbols, fetch_calls and Graph::clear on one syntax tree.   *)

Digits == <<"0", "1", "2", "3", "4", "5", "6", "7", "8", "9">>

\* The path of the file handed to the k-th fetch: every call gets a file of
\* its own.
FilePath(k) == <<"f", Digits[k + 1]>>

\* The kind of the root node of every tree of the adapter's grammar.
RootKind(q) ==
    CASE q = "RustQuery" -> "source_file"
      [] q = "CQuery" -> "translation_unit"
      [] q = "JavaQuery" -> "program"
      [] q = "JsQuery" -> "program"

\* The root node: that of an empty file is a leaf with no text, that of a
\* file of white space a leaf whose text is the white space.
RootSorts(q) ==
    { Sort(RootKind(q), "", <<>>), Sort(RootKind(q), "", <<" ", "\n">>) }

\* The node sorts of the walked trees: a definition, a node no adapter rule
\* matches, a call, and a callee.
WalkSorts(q) ==
    CASE q = "RustQuery" ->
           { Sort("function_item", "", <<"f", "n">>),
             Sort("ERROR", "", <<"?">>),
             Sort("call_expression", "", <<"(", ")">>),
             Token("identifier", "function", <<"g">>) }
      [] q = "CQuery" ->
           { Sort("function_definition", "", <<"i", "n", "t">>),
             Sort("ERROR", "", <<"?">>),
             Sort("call_expression", "", <<"(", ")">>),
             Token("identifier", "function", <<"g">>) }
      [] q = "JavaQuery" ->
           { Sort("class_declaration", "", <<"c", "l", "a", "s", "s">>),
             Sort("ERROR", "", <<"?">>),
             Sort("method_invocation", "", <<"(", ")">>),
             Token("identifier", "name", <<"g">>) }
      [] q = "JsQuery" ->
           { Sort("function_declaration", "", <<"f", "u", "n">>),
             Sort("ERROR", "", <<"?">>),
             Sort("call_expression", "", <<"(", ")">>),
             Token("identifier", "function", <<"g">>) }

Init ==
    /\ query \in Queries
    /\ \E n \in 1..MaxNodes : \E p \in PreOrderShapes(n) :
          \E r \in RootSorts(query) : \E rest \in [1..(n - 1) -> WalkSorts(query)] :
              /\ TokensAreLeaves(p, WithRoot(r, rest))
              /\ tree = BuildTree(p, WithRoot(r, rest))
    /\ path = <<>>
    /\ graph = Graph_new
    /\ stack = <<>>
    /\ calls = <<>>
    /\ calls_path = <<>>
    /\ pc = "idle"
    /\ fetches = 0
    /\ root_index = 0
    /\ ext = ""
    /\ def_out = <<>>
    /\ call_out = <<>>
    /\ NoHistory
    /\ NoApp

\* fetch_symbols up to its call of recursion_outline: the root record is
\* pushed, and the walk starts at the root node with parent CodeNodeIndex(0).
FetchSymbols ==
    /\ pc = "idle"
    /\ fetches < MaxFetches
    /\ LET added == add_node(graph, root_code_node(FilePath(fetches), tree[1].text,
                                                   Uuid("outline", fetches, 0)))
       IN  /\ graph' = added.graph
           /\ root_index' = added.index
    /\ stack' = << [node |-> 1, parent_id |-> 0, level |-> 0] >>
    /\ path' = FilePath(fetches)
    /\ fetches' = fetches + 1
    /\ pc' = "outline"
    /\ UNCHANGED <<query, tree, calls, calls_path, ext, def_out, call_out>>
    /\ UNCHANGED <<histVars, appVars>>

\* One call of recursion_outline: the node is classified, its record pushed,
\* and the calls for its children are queued in order. The return of the
\* outermost call ends fetch_symbols.
RecursionOutline ==
    /\ pc = "outline"
    /\ stack # <<>>
    /\ LET f == Head(stack)
           code_node == get_definition(query, tree, f.node,
                                       Uuid("outline", fetches - 1, f.node))
           current_id == outline_current_id(code_node, f.parent_id, Len(graph.nodes))
           rest == outline_children(tree, f.node, code_node, current_id, f.level)
                   \o Tail(stack)
       IN  /\ graph' = outline_visit(graph, code_node, f.parent_id, path, f.level)
           /\ stack' = rest
           /\ pc' = IF rest = <<>> THEN "idle" ELSE "outline"
    /\ UNCHANGED <<query, tree, path, calls, calls_path, fetches, root_index,
                   ext, def_out, call_out>>
    /\ UNCHANGED <<histVars, appVars>>

\* fetch_calls(path, code, symbol_query)
FetchCalls ==
    /\ pc = "idle"
    /\ fetches < MaxFetches
    /\ calls' = fetch_calls(FilePath(fetches), tree, query, fetches)
    /\ calls_path' = FilePath(fetches)
    /\ fetches' = fetches + 1
    /\ UNCHANGED <<query, tree, path, graph, stack, pc, root_index,
                   ext, def_out, call_out>>
    /\ prev_calls' = IF calls_path # <<>> THEN Some(calls) ELSE prev_calls
    /\ UNCHANGED <<prev_graph, appVars>>

\* graph.clear(), as the application calls it between files.
GraphClear ==
    /\ pc = "idle"
    /\ graph' = Graph_clear(graph)
    /\ root_index' = 0
    /\ UNCHANGED <<query, tree, path, stack, calls, calls_path, pc, fetches,
                   ext, def_out, call_out>>
    /\ prev_graph' = IF graph.nodes # <<>> THEN Some(graph) ELSE prev_graph
    /\ UNCHANGED <<prev_calls, appVars>>

Next ==
    \/ FetchSymbols
    \/ RecursionOutline
    \/ FetchCalls
    \/ GraphClear

Spec == Init /\ [][Next]_vars

----------------------------------------------------------------------------
(* SpecCalls: fetch_calls alone, on files whose trees are made of calls   *)
(* and callees.                                                            *)

\* The node sorts of those trees: a call (a statement, or an argument of
\* another call), a call that is the callee of another call, and a callee
\* name. A call without a callee child is a node get_call does not answer.
CallWalkSorts(q) ==
    CASE q = "JavaQuery" ->
           { Sort("method_invocation", "", <<"(", ")">>),
             Sort("method_invocation", "object", <<"(", ")">>),
             Token("identifier", "name", <<"g">>) }
      [] OTHER ->
           { Sort("call_expression", "", <<"(", ")">>),
             Sort("call_expression", "function", <<"(", ")">>),
             Token("identifier", "function", <<"g">>) }

InitCalls ==
    /\ query \in Queries
    /\ \E n \in 1..MaxCallNodes : \E p \in PreOrderShapes(n) :
          \E r \in RootSorts(query) :
              \E rest \in [1..(n - 1) -> CallWalkSorts(query)] :
                  /\ TokensAreLeaves(p, WithRoot(r, rest))
                  /\ tree = BuildTree(p, WithRoot(r, rest))
    /\ path = <<>>
    /\ graph = Graph_new
    /\ stack = <<>>
    /\ calls = <<>>
    /\ calls_path = <<>>
    /\ pc = "idle"
    /\ fetches = 0
    /\ root_index = 0
    /\ ext = ""
    /\ def_out = <<>>
    /\ call_out = <<>>
    /\ NoHistory
    /\ NoApp

NextCalls == FetchCalls

SpecCalls == InitCalls /\ [][NextCalls]_vars

----------------------------------------------------------------------------
(* SpecAdapter: the adapters' functions applied to the nodes of a tree,    *)
(* and the choice of an adapter by file extension.                         *)

Exts == {"rs", "c", "h", "java", "js", "py", ""}

\* The sorts of the definition nodes handed to get_definition.
DefRoots(q) ==
    CASE q = "RustQuery" ->
           { Sort("function_item", "", <<"f", "n">>),
             Sort("impl_item", "", <<"i", "m", "p", "l">>) }
      [] q = "CQuery" ->
           { Sort("function_definition", "", <<"i", "n", "t">>) }
      [] q = "JavaQuery" ->
           { Sort("class_declaration", "", <<"c", "l", "a", "s", "s">>),
             Sort("method_declaration", "", <<"i", "n", "t">>) }
      [] q = "JsQuery" ->
           { Sort("function_declaration", "", <<"f", "u", "n">>),
             Sort("class_declaration", "", <<"c", "l", "a", "s", "s">>) }

\* The sorts of the nodes below a definition node.
DefSorts(q) ==
    CASE q = "RustQuery" ->
           { Token("fn", "", <<"f", "n">>),
             Token("impl", "", <<"i", "m", "p", "l">>),
             Token("identifier", "name", <<"f", "o", "o">>),
             Sort("parameters", "parameters", <<"(", "x", ")">>),
             Sort("declaration_list", "body", <<"{", "}">>) }
      [] q = "CQuery" ->
           { Token("primitive_type", "type", <<"i", "n", "t">>),
             Sort("function_declarator", "declarator", <<"a", "d", "d", "(", ")">>),
             Sort("parenthesized_declarator", "declarator", <<"(", "f", ")">>),
             Token("identifier", "declarator", <<"x">>),
             Sort("compound_statement", "body", <<"{", "}">>) }
      [] q = "JavaQuery" ->
           { Token("class", "", <<"c", "l", "a", "s", "s">>),
             Token("identifier", "name", <<"A">>),
             Sort("formal_parameters", "parameters", <<"(", ")">>),
             Sort("class_body", "body", <<"{", "}">>) }
      [] q = "JsQuery" ->
           { Token("function", "", <<"f", "u", "n">>),
             Token("class", "", <<"c", "l", "a", "s", "s">>),
             Token("identifier", "name", <<"f", "o", "o">>),
             Sort("formal_parameters", "parameters", <<"(", ")">>),
             Sort("class_body", "body", <<"{", "}">>) }

\* The sorts of the call nodes handed to get_call.
CallRoots(q) ==
    CASE q = "JavaQuery" -> { Sort("method_invocation", "", <<"(", ")">>) }
      [] OTHER -> { Sort("call_expression", "", <<"(", ")">>) }

\* The sorts of the nodes below a call node: callees, their parts, arguments.
CallSorts(q) ==
    CASE q = "RustQuery" ->
           { Sort("field_expression", "function", <<".">>),
             Token("identifier", "function", <<"f", "o", "o">>),
             Token("identifier", "value", <<"o", "b", "j">>),
             Token("field_identifier", "field", <<"m", "e", "t", "h", "o", "d">>),
             Sort("arguments", "arguments", <<"(", ")">>) }
      [] q = "CQuery" ->
           { Sort("field_expression", "function", <<".">>),
             Token("identifier", "function", <<"f", "o", "o">>),
             Token("identifier", "argument", <<"o", "b", "j">>),
             Token("field_identifier", "field", <<"m", "e", "t", "h", "o", "d">>),
             Sort("argument_list", "arguments", <<"(", ")">>) }
      [] q = "JavaQuery" ->
           { Token("identifier", "name", <<"m", "e", "t", "h", "o", "d">>),
             Token("identifier", "object", <<"o", "b", "j">>),
             Sort("argument_list", "arguments", <<"(", ")">>) }
      [] q = "JsQuery" ->
           { Sort("member_expression", "function", <<".">>),
             Token("identifier", "function", <<"f", "o", "o">>),
             Token("identifier", "object", <<"o", "b", "j">>),
             Token("property_identifier", "property", <<"m", "e", "t", "h", "o", "d">>),
             Sort("arguments", "arguments", <<"(", ")">>) }

\* The subtrees handed to an adapter: a definition node or a call node, and
\* what lies below it.
AdapterSorts(q) ==
    { [roots |-> DefRoots(q), below |-> DefSorts(q)],
      [roots |-> CallRoots(q), below |-> CallSorts(q)] }

InitAdapter ==
    /\ query = ""
    /\ tree = <<>>
    /\ path = <<>>
    /\ graph = Graph_new
    /\ stack = <<>>
    /\ calls = <<>>
    /\ calls_path = <<>>
    /\ pc = "start"
    /\ fetches = 0
    /\ root_index = 0
    /\ ext = ""
    /\ def_out = <<>>
    /\ call_out = <<>>
    /\ NoHistory
    /\ NoApp

\* get_symbol_query(ext) for the extension of some file.
SelectAdapter(e) ==
    /\ pc = "start"
    /\ ext' = e
    /\ query' = get_symbol_query(e)
    /\ pc' = "selected"
    /\ UNCHANGED <<tree, path, graph, stack, calls, calls_path, fetches,
                   root_index, def_out, call_out>>
    /\ UNCHANGED <<histVars, appVars>>

\* parser.set_language(&symbol_query.get_lang()); parser.parse(code, None):
\* a tree of the adapter's grammar.
Parse ==
    /\ pc = "start"
    /\ \E q \in Queries : \E S \in AdapterSorts(q) :
          \E n \in 1..MaxNodes : \E p \in PreOrderShapes(n) :
              \E r \in S.roots : \E rest \in [1..(n - 1) -> S.below] :
                  /\ TokensAreLeaves(p, WithRoot(r, rest))
                  /\ query' = q
                  /\ tree' = BuildTree(p, WithRoot(r, rest))
    /\ pc' = "parsed"
    /\ UNCHANGED <<path, graph, stack, calls, calls_path, fetches, root_index,
                   ext, def_out, call_out>>
    /\ UNCHANGED <<histVars, appVars>>

\* The nodes of one variable_declarator of a JS lexical declaration, the
\* declarator being node d of its tree and a child of node ld: a declarator
\* that binds an identifier, or one that binds the variables of an object
\* pattern, each followed by its initializer.
Declarator(name, ld, d) ==
    IF name \in {"a", "b"}
    THEN << [parent |-> ld, sort |-> Sort("variable_declarator", "", <<>>)],
            [parent |-> d, sort |-> Token("identifier", "name", <<name>>)],
            [parent |-> d, sort |-> Token("number", "value", <<"1">>)] >>
    ELSE << [parent |-> ld, sort |-> Sort("variable_declarator", "", <<>>)],
            [parent |-> d, sort |-> Sort("object_pattern", "name", <<>>)],
            [parent |-> d + 1, sort |-> Token("{", "", <<"{">>)],
            [parent |-> d + 1,
             sort |-> Token("shorthand_property_identifier_pattern", "", <<"c">>)],
            [parent |-> d + 1, sort |-> Token("}", "", <<"}">>)],
            [parent |-> d, sort |-> Token("identifier", "value", <<"o">>)] >>

RECURSIVE Declarators(_, _, _)
\* The nodes of the declarators named by names, separated by "," tokens, the
\* first of them being node d.
Declarators(names, ld, d) ==
    IF names = <<>> THEN <<>>
    ELSE LET one == Declarator(Head(names), ld, d)
             sep == IF Len(names) > 1
                    THEN << [parent |-> ld, sort |-> Token(",", "", <<",">>)] >>
                    ELSE <<>>
         IN  one \o sep \o Declarators(Tail(names), ld, d + Len(one) + Len(sep))

\* The text of a declaration keyword.
KeywordText(kind) ==
    IF kind = "const" THEN <<"c", "o", "n", "s", "t">> ELSE <<"l", "e", "t">>

\* The tree of a JS file that holds one lexical declaration, directly below
\* the program root or inside a statement block:
\*   program [statement_block "{"] lexical_declaration kind declarators ";" 
LexicalTree(nested, kind, names) ==
    LET above == IF nested
                 THEN << [parent |-> 0, sort |-> Sort("program", "", <<>>)],
                         [parent |-> 1, sort |-> Sort("statement_block", "", <<>>)],
                         [parent |-> 2, sort |-> Token("{", "", <<"{">>)] >>
                 ELSE << [parent |-> 0, sort |-> Sort("program", "", <<>>)] >>
        ld == Len(above) + 1
        nodes == above
                 \o << [parent |-> IF nested THEN 2 ELSE 1,
                        sort |-> Sort("lexical_declaration", "", <<>>)],
                       [parent |-> ld, sort |-> Token(kind, "kind", KeywordText(kind))] >>
                 \o Declarators(names, ld, ld + 2)
                 \o << [parent |-> ld, sort |-> Token(";", "", <<";">>)] >>
    IN  BuildTree([i \in 1..Len(nodes) |-> nodes[i].parent],
                  [i \in 1..Len(nodes) |-> nodes[i].sort])

\* The declaration keywords of JS.
LexicalKinds == {"const", "let"}

\* parser.parse(code, None) of a JS file that holds a lexical declaration.
ParseLexicalDeclaration ==
    /\ pc = "start"
    /\ \E nested \in BOOLEAN : \E kind \in LexicalKinds :
          \E k \in 1..MaxDeclarators : \E names \in [1..k -> {"a", "b", "{c}"}] :
              tree' = LexicalTree(nested, kind, names)
    /\ query' = "JsQuery"
    /\ pc' = "parsed"
    /\ UNCHANGED <<path, graph, stack, calls, calls_path, fetches, root_index,
                   ext, def_out, call_out>>
    /\ UNCHANGED <<histVars, appVars>>

\* symbol_query.get_definition(code, &node) for every node of the tree.
GetDefinition ==
    /\ pc = "parsed"
    /\ def_out' = [ n \in 1..Len(tree) |->
                      get_definition(query, tree, n, Uuid("outline", 0, n)) ]
    /\ pc' = "definitions"
    /\ UNCHANGED <<query, tree, path, graph, stack, calls, calls_path, fetches,
                   root_index, ext, call_out>>
    /\ UNCHANGED <<histVars, appVars>>

\* symbol_query.get_call(code, &node) for every node of the tree.
GetCall ==
    /\ pc = "parsed"
    /\ call_out' = [ n \in 1..Len(tree) |->
                       get_call(query, tree, n, Uuid("call", 0, n)) ]
    /\ pc' = "calls"
    /\ UNCHANGED <<query, tree, path, graph, stack, calls, calls_path, fetches,
                   root_index, ext, def_out>>
    /\ UNCHANGED <<histVars, appVars>>

NextAdapter ==
    \/ \E e \in Exts : SelectAdapter(e)
    \/ Parse
    \/ ParseLexicalDeclaration
    \/ GetDefinition
    \/ GetCall

SpecAdapter == InitAdapter /\ [][NextAdapter]_vars

----------------------------------------------------------------------------
(* SpecApp: the application (src/src/main.rs). A project directory is      *)
(* picked and scanned by a worker thread, files are selected in the file   *)
(* tree, records are focused in the graph.                                 *)

\* The files the project directory can hold: a C file with a function g
\* that returns a struct g and calls g, and an empty Rust file. The text of
\* a file is named by its content.
FileEntries ==
    { [name |-> <<"b", ".", "c">>, is_dir |-> FALSE, content |-> "struct_fn"],
      [name |-> <<"e", ".", "rs">>, is_dir |-> FALSE, content |-> "empty"] }

\* A sub-directory that holds a Rust file with a function g and a call of g,
\* and a file of a language that has no adapter.
DirEntry ==
    [ name |-> <<"d">>, is_dir |-> TRUE,
      children |-> << [name |-> <<"a", ".", "rs">>, is_dir |-> FALSE,
                       content |-> "fn_and_call"],
                      [name |-> <<"s", ".", "py">>, is_dir |-> FALSE,
                       content |-> "script"] >> ]

\* What read_dir can list for the project directory: up to MaxEntries
\* entries of different names, in any order.
Projects ==
    UNION { { es \in [1..n -> FileEntries \cup {DirEntry}] :
                \A i, j \in 1..n : es[i].name = es[j].name => i = j } :
            n \in 1..MaxEntries }

\* The path of the picked folder.
ProjectPath == <<"p">>

\* dir_entry.path()
JoinPath(dir, name) == dir \o <<"/">> \o name

RECURSIVE recursion_dir(_, _, _, _)
\* recursion_dir(root_path, pathes, root_tree), entries being what
\* read_dir(root_path) lists: the tree returned and pathes after the call.
recursion_dir(dir_path, entries, pathes, root_tree) ==
    IF entries = <<>> THEN [tree |-> root_tree, pathes |-> pathes]
    ELSE LET e == Head(entries)
             path_buf == JoinPath(dir_path, e.name)
             child == Tree_new(e.name, path_buf,
                               IF e.is_dir THEN "Directory" ELSE "File")
             sub == IF e.is_dir
                    THEN recursion_dir(path_buf, e.children, pathes, child)
                    ELSE [tree |-> child, pathes |-> Append(pathes, path_buf)]
         IN  recursion_dir(dir_path, Tail(entries), sub.pathes,
                           [root_tree EXCEPT !.children = Append(@, sub.tree)])

\* path.extension().unwrap_or(OsStr::new("")).to_str().unwrap()
extension(p) ==
    IF Len(p) >= 3 /\ p[Len(p) - 1] = "." /\ p[Len(p) - 2] # "/"
    THEN p[Len(p)] ELSE ""

RECURSIVE FilesBelow(_, _)
\* The files of a directory listing, each with its path.
FilesBelow(dir, entries) ==
    IF entries = <<>> THEN {}
    ELSE LET e == Head(entries)
         IN  (IF e.is_dir THEN FilesBelow(JoinPath(dir, e.name), e.children)
              ELSE { [path |-> JoinPath(dir, e.name), content |-> e.content] })
             \cup FilesBelow(dir, Tail(entries))

\* The content of the file at path p of the project directory dir.
ContentAt(dir, p) ==
    (CHOOSE f \in FilesBelow(ProjectPath, dir) : f.path = p).content

\* The nodes of a syntax tree from a list of (parent, sort) pairs.
TreeOf(nodes) ==
    BuildTree([i \in 1..Len(nodes) |-> nodes[i].parent],
              [i \in 1..Len(nodes) |-> nodes[i].sort])

\* parser.parse(code, None) with the grammar of adapter q, for the text a
\* content names:
\*   fn_and_call   fn g ( ) ;  g ( )       (Rust)
\*   struct_fn     struct g g ( ) { g ( ) }     (C)
\*   empty         no token
ParseContent(q, content) ==
    CASE content = "fn_and_call" ->
           TreeOf(<< [parent |-> 0, sort |-> Sort(RootKind(q), "", <<>>)],
                     [parent |-> 1, sort |-> Sort("function_item", "", <<>>)],
                     [parent |-> 2, sort |-> Token("fn", "", <<"f", "n">>)],
                     [parent |-> 2, sort |-> Token("identifier", "name", <<"g">>)],
                     [parent |-> 2,
                      sort |-> Sort("parameters", "parameters", <<"(", ")">>)],
                     [parent |-> 1, sort |-> Sort("call_expression", "", <<>>)],
                     [parent |-> 6,
                      sort |-> Token("identifier", "function", <<"g">>)] >>)
      [] content = "struct_fn" ->
           TreeOf(<< [parent |-> 0, sort |-> Sort(RootKind(q), "", <<>>)],
                     [parent |-> 1, sort |-> Sort("function_definition", "", <<>>)],
                     [parent |-> 2,
                      sort |-> Token("struct_specifier", "type",
                                     <<"s", "t", "r", "u", "c", "t", " ", "g">>)],
                     [parent |-> 2,
                      sort |-> Token("function_declarator", "declarator",
                                     <<"g", "(", ")">>)],
                     [parent |-> 2, sort |-> Sort("compound_statement", "body", <<>>)],
                     [parent |-> 5, sort |-> Sort("call_expression", "", <<>>)],
                     [parent |-> 6,
                      sort |-> Token("identifier", "function", <<"g">>)] >>)
      [] OTHER ->
           TreeOf(<< [parent |-> 0, sort |-> Sort(RootKind(q), "", <<>>)] >>)

RECURSIVE scan_calls_last_first(_, _, _, _)
\* A scan that puts the calls of a file in front of those of the files
\* discovered before it.
scan_calls_last_first(dir, pathes, j, k) ==
    IF j > Len(pathes) THEN <<>>
    ELSE LET name == pathes[j]
             ext_ == extension(name)
             found == IF valid_file_extention(ext_)
                      THEN fetch_calls(name,
                                       ParseContent(get_symbol_query(ext_),
                                                    ContentAt(dir, name)),
                                       get_symbol_query(ext_), <<k, j>>)
                      ELSE <<>>
         IN  scan_calls_last_first(dir, pathes, j + 1, k) \o found

RECURSIVE scan_calls(_, _, _, _)
\* pathes.iter().map(|path_buffer| if valid_file_extention(ext)
\*   { fetch_calls(name, code, get_symbol_query(ext)) } else { vec![] })
\*   .flatten().collect(), for the files pathes[j..] of the k-th scan.
scan_calls(dir, pathes, j, k) ==
    IF j > Len(pathes) THEN <<>>
    ELSE LET name == pathes[j]
             ext_ == extension(name)
             found == IF valid_file_extention(ext_)
                      THEN fetch_calls(name,
                                       ParseContent(get_symbol_query(ext_),
                                                    ContentAt(dir, name)),
                                       get_symbol_query(ext_), <<k, j>>)
                      ELSE <<>>
         IN  found \o scan_calls(dir, pathes, j + 1, k)

\* root_path.is_dir(): the picked folder is the only directory there is
\* above the entries; the empty path names none.
is_dir(dir_path) == dir_path = ProjectPath

\* What recursion_dir lists for dir_path when the project directory holds
\* dir: nothing when dir_path is no directory, where it returns root_tree.
read_dir(dir_path, dir) == IF is_dir(dir_path) THEN dir ELSE <<>>

\* The body of the worker thread of the k-th scan, started for dir_path:
\* what it sends.
scan_result(dir_path, dir, k) ==
    LET result == recursion_dir(dir_path, read_dir(dir_path, dir), <<>>,
                                Tree_new(dir_path, dir_path, "Directory"))
    IN  [scan |-> k, tree |-> result.tree,
         calls |-> scan_calls(dir, result.pathes, 1, k)]

RECURSIVE split(_, _)
\* s.split(ch): the pieces of s between the occurrences of ch, in order.
split(s, ch) ==
    LET piece == take_until(s, ch)
    IN  IF Len(piece) = Len(s) THEN <<s>>
        ELSE <<piece>> \o split(SubSeq(s, Len(piece) + 2, Len(s)), ch)

\* for ele in current_label.split(" ") { if ele == node.label
\*   { self.filter_call_nodes.push(node.clone()) } }
filter_pushes(node, pieces) ==
    LET hits == SelectSeq(pieces, LAMBDA ele : ele = node.label)
    IN  [ k \in 1..Len(hits) |-> node ]

RECURSIVE filter_calls(_, _)
\* self.filter_call_nodes after: clear(); for node in &self.call_nodes { .. }
filter_calls(nodes, current_label) ==
    IF nodes = <<>> THEN <<>>
    ELSE filter_pushes(Head(nodes), split(current_label, " "))
         \o filter_calls(Tail(nodes), current_label)

\* Graph::get_node(index)
get_node(g, index) ==
    IF index + 1 \in 1..Len(g.nodes) THEN g.nodes[index + 1] ELSE CodeNode_default

RECURSIVE Clickable(_)
\* Tree::ui: the paths a click in the shown tree can return. An entry with
\* children, or a directory, is drawn as a header; any other as a
\* selectable value that returns its full_path.
Clickable(t) ==
    IF Len(t.children) > 0 \/ t.tree_type = "Directory"
    THEN UNION { Clickable(t.children[i]) : i \in 1..Len(t.children) }
    ELSE { t.full_path }

InitApp ==
    /\ query = ""
    /\ tree = <<>>
    /\ path = <<>>
    /\ graph = Graph_new
    /\ stack = <<>>
    /\ calls = <<>>
    /\ calls_path = <<>>
    /\ pc = "idle"
    /\ fetches = 0
    /\ root_index = 0
    /\ ext = ""
    /\ def_out = <<>>
    /\ call_out = <<>>
    /\ NoHistory
    /\ app_tree = Tree_new(<<>>, <<>>, "File")
    /\ call_nodes = <<>>
    /\ filter_call_nodes = <<>>
    /\ current_node = CodeNode_default
    /\ project_root_path = None
    /\ root_path = <<>>
    /\ rx = None
    /\ scans = <<>>
    /\ dialog = ""
    /\ storage = None
    /\ project \in Projects

\* The end of update(): if a record is focused, it becomes the current
\* record and the related-call list is rebuilt from the call index.
\* g and index are the graph and the call index at that point of the frame.
FocusTail(g, index) ==
    IF g.focus_node # None
    THEN /\ current_node' = get_node(g, g.focus_node[1])
         /\ filter_call_nodes' = filter_calls(index, get_node(g, g.focus_node[1]).label)
    ELSE UNCHANGED <<current_node, filter_call_nodes>>

\* A scan that keeps the receiver of a scan still pending instead of
\* storing its own.
store_receiver_keep_pending(old, k) == IF old # None THEN old ELSE Some(k)

\* self.rx = Some(rx): the receiver of the k-th scan's channel is stored, and
\* the receiver stored before, old, is dropped.
store_receiver(old, k) == Some(k)

\* The block of update() that runs when project_root_path is Some(dir_path):
\* the graph is cleared, a channel made, its receiver stored, the worker
\* spawned for dir_path and project_root_path reset.
SpawnScan(dir_path) ==
    /\ graph' = Graph_clear(graph)
    /\ rx' = store_receiver(rx, Len(scans) + 1)
    /\ scans' = Append(scans, [state |-> "running", dir |-> dir_path])
    /\ project_root_path' = None

\* A frame in which the folder button is clicked and a folder picked:
\* root_path and project_root_path are set; then, project_root_path being
\* Some, the graph is cleared, a channel made, its receiver stored, the worker
\* spawned and project_root_path reset. The channel is empty in this frame.
PickFolder ==
    /\ pc = "idle"
    /\ project_root_path = None
    /\ Len(scans) < MaxScans
    /\ root_path' = ProjectPath
    /\ SpawnScan(ProjectPath)
    /\ UNCHANGED <<query, tree, path, stack, calls, calls_path, pc, fetches,
                   root_index, ext, def_out, call_out, histVars, project,
                   app_tree, call_nodes, filter_call_nodes, current_node,
                   dialog, storage>>

\* The worker thread of the k-th scan, from recursion_dir to
\* tx.send(..).unwrap(). When the file system answers read_dir or an entry
\* with an error (readable false), recursion_dir's expect panics and the
\* thread ends with nothing sent; otherwise it sends, and the send fails
\* when the receiver of its channel is gone.
ScanRun(k) ==
    /\ scans[k].state = "running"
    /\ \E readable \in BOOLEAN :
          scans' = [scans EXCEPT ![k] =
                      IF ~readable /\ is_dir(scans[k].dir)
                      THEN [state |-> "died", dir |-> scans[k].dir]
                      ELSE IF rx = Some(k)
                      THEN [state |-> "sent", dir |-> scans[k].dir,
                            message |-> scan_result(scans[k].dir, project, k)]
                      ELSE [state |-> "panicked", dir |-> scans[k].dir]]
    /\ UNCHANGED <<query, tree, path, graph, stack, calls, calls_path, pc,
                   fetches, root_index, ext, def_out, call_out, histVars,
                   project, app_tree, call_nodes, filter_call_nodes,
                   current_node, project_root_path, root_path, rx, dialog,
                   storage>>

\* A frame in which rx.try_recv() returns the worker's message.
Receive ==
    /\ pc = "idle"
    /\ rx # None
    /\ scans[rx[1]].state = "sent"
    /\ app_tree' = scans[rx[1]].message.tree
    /\ call_nodes' = scans[rx[1]].message.calls
    /\ rx' = None
    /\ scans' = [scans EXCEPT ![rx[1]] = [state |-> "received", dir |-> @.dir]]
    /\ FocusTail(graph, scans[rx[1]].message.calls)
    /\ UNCHANGED <<query, tree, path, graph, stack, calls, calls_path, pc,
                   fetches, root_index, ext, def_out, call_out, histVars,
                   project, project_root_path, root_path, dialog, storage>>

\* A frame in which a file of the shown tree is clicked (side_panel): a file
\* with a valid extension is read, the current record reset, the graph
\* cleared and fetch_symbols called, here up to its call of
\* recursion_outline; for any other file a dialog is shown.
SelectFile(name) ==
    /\ pc = "idle"
    /\ app_tree.label # <<>>
    /\ name \in Clickable(app_tree)
    /\ ext' = extension(name)
    /\ IF valid_file_extention(extension(name))
       THEN /\ fetches < MaxFetches
            /\ query' = get_symbol_query(extension(name))
            /\ tree' = ParseContent(get_symbol_query(extension(name)),
                                    ContentAt(project, name))
            /\ current_node' = CodeNode_default
            /\ LET added == add_node(Graph_clear(graph),
                                     root_code_node(name, tree'[1].text,
                                                    Uuid("outline", fetches, 0)))
               IN  /\ graph' = added.graph
                   /\ root_index' = added.index
            /\ stack' = << [node |-> 1, parent_id |-> 0, level |-> 0] >>
            /\ path' = name
            /\ fetches' = fetches + 1
            /\ pc' = "outline"
            /\ dialog' = ""
       ELSE /\ dialog' = "unsupported"
            /\ UNCHANGED <<query, tree, current_node, graph, root_index, stack,
                           path, fetches, pc>>
    /\ UNCHANGED <<calls, calls_path, def_out, call_out, histVars, project,
                   app_tree, call_nodes, filter_call_nodes, project_root_path,
                   root_path, rx, scans, storage>>

\* A frame in which the record of index i is clicked in the graph
\* (Graph::ui): it gets the focus.
ClickNode(i) ==
    /\ pc = "idle"
    /\ i \in 0..(Len(graph.nodes) - 1)
    /\ graph' = [graph EXCEPT !.focus_node = Some(i)]
    /\ FocusTail(graph', call_nodes)
    /\ UNCHANGED <<query, tree, path, stack, calls, calls_path, pc, fetches,
                   root_index, ext, def_out, call_out, histVars, project,
                   app_tree, call_nodes, project_root_path, root_path, rx,
                   scans, dialog, storage>>

\* The paths of the files below the project directory.
AllPaths == { f.path : f \in FilesBelow(ProjectPath, project) }

NextApp ==
    \/ PickFolder
    \/ \E k \in 1..Len(scans) : ScanRun(k)
    \/ Receive
    \/ \E name \in AllPaths : SelectFile(name)
    \/ RecursionOutline
    \/ \E i \in 0..(Len(graph.nodes) - 1) : ClickNode(i)

SpecApp == InitApp /\ [][NextApp]_vars

\* The application while update() keeps being called and the worker threads
\* are scheduled: a frame that can receive is eventually drawn, a running
\* worker eventually ends, a walk that was started runs to its end.
SpecAppLive ==
    /\ SpecApp
    /\ WF_vars(Receive)
    /\ WF_vars(\E k \in 1..Len(scans) : ScanRun(k))
    /\ WF_vars(RecursionOutline)

----------------------------------------------------------------------------
(* SpecPersist: the application across restarts, with eframe's storage.    *)

\* MyApp::save: the AppState written under the key app_state (its editor
\* field is left out here).
save(root) == Some([root_path |-> root])

\* main(): project_root_path of the MyApp it builds, from the app_state the
\* storage holds; no other field of MyApp::default() is changed.
restore(saved) ==
    IF saved # None THEN Some(saved[1].root_path) ELSE None

\* The first frame after a start that restored project_root_path: update()
\* finds it Some and starts the scan of that path.
FirstFrame ==
    /\ pc = "idle"
    /\ project_root_path # None
    /\ Len(scans) < MaxScans
    /\ SpawnScan(project_root_path[1])
    /\ UNCHANGED <<query, tree, path, stack, calls, calls_path, pc, fetches,
                   root_index, ext, def_out, call_out, histVars, project,
                   app_tree, call_nodes, filter_call_nodes, current_node,
                   root_path, dialog, storage>>

\* The window is closed after at least one frame, eframe calls save, the
\* process ends and with it its worker threads; the application is started
\* again and main() builds MyApp from the storage.
Restart ==
    /\ pc = "idle"
    /\ project_root_path = None
    /\ storage' = save(root_path)
    /\ project_root_path' = restore(storage')
    /\ app_tree' = Tree_new(<<>>, <<>>, "File")
    /\ call_nodes' = <<>>
    /\ filter_call_nodes' = <<>>
    /\ current_node' = CodeNode_default
    /\ root_path' = <<>>
    /\ graph' = Graph_new
    /\ rx' = None
    /\ scans' = <<>>
    /\ dialog' = ""
    /\ UNCHANGED <<query, tree, path, stack, calls, calls_path, pc, fetches,
                   root_index, ext, def_out, call_out, histVars, project>>

NextPersist ==
    \/ PickFolder
    \/ FirstFrame
    \/ \E k \in 1..Len(scans) : ScanRun(k)
    \/ Receive
    \/ Restart

SpecPersist == InitApp /\ [][NextPersist]_vars

----------------------------------------------------------------------------
(* SpecGraph: a caller of the public operations of Graph.                  *)

\* Graph::node_index: the index of the first record of that id, and
\* CodeNodeIndex(0) when the graph holds none.
node_index(g, node_id) ==
    IF \E i \in 1..Len(g.nodes) : g.nodes[i].id = node_id
    THEN (CHOOSE i \in 1..Len(g.nodes) :
              /\ g.nodes[i].id = node_id
              /\ \A j \in 1..(i - 1) : g.nodes[j].id # node_id) - 1
    ELSE 0

\* The CodeNodeIndex values a caller can get from the graph: CodeNodeIndex
\* has a private field, so they are what node_index returns, for the id of a
\* record or for an id no record has, and what get_focus_idx returns.
Handles(g) ==
    { node_index(g, id) :
        id \in { g.nodes[i].id : i \in 1..Len(g.nodes) } \cup { <<"none">> } }
    \cup { g.focus_node[i] : i \in 1..Len(g.focus_node) }

\* A Rust file that is empty, or holds a function and a call; a new graph.
InitGraph ==
    /\ query = "RustQuery"
    /\ tree \in { ParseContent("RustQuery", content) :
                     content \in {"empty", "fn_and_call"} }
    /\ path = <<>>
    /\ graph = Graph_new
    /\ stack = <<>>
    /\ calls = <<>>
    /\ calls_path = <<>>
    /\ pc = "idle"
    /\ fetches = 0
    /\ root_index = 0
    /\ ext = ""
    /\ def_out = <<>>
    /\ call_out = <<>>
    /\ NoHistory
    /\ NoApp

\* graph.add_node(CodeNode::default()), called by the caller itself.
AddNode ==
    /\ pc = "idle"
    /\ Len(graph.nodes) < MaxPushes
    /\ graph' = add_node(graph, CodeNode_default).graph
    /\ UNCHANGED <<query, tree, path, stack, calls, calls_path, pc, fetches,
                   root_index, ext, def_out, call_out, histVars, appVars>>

\* graph.add_edge(from, to), called by the caller itself with indices it
\* got from the graph.
AddEdge(from, to) ==
    /\ pc = "idle"
    /\ Len(graph.edges) < MaxPushes
    /\ from \in Handles(graph)
    /\ to \in Handles(graph)
    /\ graph' = add_edge(graph, from, to)
    /\ UNCHANGED <<query, tree, path, stack, calls, calls_path, pc, fetches,
                   root_index, ext, def_out, call_out, histVars, appVars>>

\* Graph::ui in a frame in which the record drawn at index is clicked.
GraphClick(index) ==
    /\ pc = "idle"
    /\ index \in 0..(Len(graph.nodes) - 1)
    /\ graph' = [graph EXCEPT !.focus_node = Some(index)]
    /\ UNCHANGED <<query, tree, path, stack, calls, calls_path, pc, fetches,
                   root_index, ext, def_out, call_out, histVars, appVars>>

\* graph.clear(), called by the caller itself.
Clear ==
    /\ pc = "idle"
    /\ graph' = Graph_clear(graph)
    /\ UNCHANGED <<query, tree, path, stack, calls, calls_path, pc, fetches,
                   root_index, ext, def_out, call_out, histVars, appVars>>

NextGraph ==
    \/ FetchSymbols
    \/ RecursionOutline
    \/ Clear
    \/ AddNode
    \/ \E from, to \in 0..(Len(graph.nodes)) : AddEdge(from, to)
    \/ \E index \in 0..(Len(graph.nodes) - 1) : GraphClick(index)

SpecGraph == InitGraph /\ [][NextGraph]_vars

----------------------------------------------------------------------------
(* What the claims speak of.                                               *)

\* The indices of the records of graph g.
Indices(g) == 0..(Len(g.nodes) - 1)

\* The edges of g that end at the record of index i.
Incoming(g, i) == { k \in 1..Len(g.edges) : g.edges[k].to = i }

RECURSIVE ReachesRoot(_, _, _)
\* Following edges backwards from index i arrives at index 0 within fuel steps.
ReachesRoot(g, i, fuel) ==
    \/ i = 0
    \/ /\ fuel > 0
       /\ \E k \in Incoming(g, i) : ReachesRoot(g, g.edges[k].from, fuel - 1)

IsRootedTree(g) ==
    /\ \A k \in 1..Len(g.edges) :
          g.edges[k].from \in Indices(g) /\ g.edges[k].to \in Indices(g)
    /\ Incoming(g, 0) = {}
    /\ \A i \in Indices(g) \ {0} :
          /\ Cardinality(Incoming(g, i)) = 1
          /\ ReachesRoot(g, i, Len(g.nodes))

\* The graph holds what one fetch_symbols call put into an empty graph.
FreshGraph == root_index = 0 /\ graph.nodes # <<>>

\* The nodes of t the adapter q recognizes as definitions, and as calls.
DefNodes(q, t) ==
    { n \in 1..Len(t) : get_definition(q, t, n, Uuid("outline", 0, n)) # None }

CallNodes(q, t) ==
    { n \in 1..Len(t) : get_call(q, t, n, Uuid("call", 0, n)) # None }

\* The members of the set S of node ids, in pre-order.
PreOrder(t, S) == SelectSeq([i \in 1..Len(t) |-> i], LAMBDA n : n \in S)

RECURSIVE ProperAncestors(_, _)
ProperAncestors(t, n) ==
    IF t[n].parent = 0 THEN {}
    ELSE {t[n].parent} \cup ProperAncestors(t, t[n].parent)

MaxOf(S) == CHOOSE x \in S : \A y \in S : y <= x

\* The nearest ancestor of node n that is a definition (0: none is).
NearestDefinition(q, t, n) ==
    LET defs == ProperAncestors(t, n) \cap DefNodes(q, t)
    IN  IF defs = {} THEN 0 ELSE MaxOf(defs)

\* The index of the root record of the fetch_symbols call that made record i.
RunRoot(g, i) == MaxOf({ j \in 0..i : node_at(g, j).node = 0 })

\* The index of the record that the call which made record i made of node m.
RecordOf(g, i, m) ==
    CHOOSE j \in RunRoot(g, i)..i : node_at(g, j).node = m

\* The syntax nodes of a sequence of records, in order.
NodesOf(records) == [ k \in 1..Len(records) |-> records[k].node ]

\* C1: after fetch_symbols has returned, every record at the end of an edge
\* has the level of the record at the start of the edge plus 1.
C1_LevelIsParentLevelPlusOne ==
    pc = "idle" =>
        \A k \in 1..Len(graph.edges) :
            node_at(graph, graph.edges[k].to).level
                = node_at(graph, graph.edges[k].from).level + 1

\* C2: while and after fetch_symbols fills an empty graph, the edges are a
\* tree rooted at index 0: no edge ends at index 0, exactly one edge ends at
\* every other index, and every index leads back to index 0.
C2_EdgesFormRootedTree == FreshGraph => IsRootedTree(graph)

\* A walk on an empty graph is under way, and a record hangs below a record
\* other than the root.
C2_Witness ==
    /\ FreshGraph
    /\ pc = "outline"
    /\ Len(graph.nodes) >= 3
    /\ \E k \in 1..Len(graph.edges) : graph.edges[k].from # 0

\* C3: the one edge that ends at a definition's record starts at the record
\* of the nearest enclosing definition of its syntax node, and at index 0
\* when no enclosing node is a definition.
C3_ParentIsNearestDefinition ==
    \A i \in Indices(graph) :
        node_at(graph, i).node # 0 =>
            LET m == NearestDefinition(query, tree, node_at(graph, i).node)
            IN  /\ Cardinality(Incoming(graph, i)) = 1
                /\ \A k \in Incoming(graph, i) :
                      graph.edges[k].from = IF m = 0 THEN 0 ELSE RecordOf(graph, i, m)

\* A record whose syntax node lies below a node that is no definition, itself
\* below a definition: the record hangs below that definition's record.
C3_Witness ==
    /\ pc = "idle"
    /\ \E i \in Indices(graph) :
          LET n == node_at(graph, i).node
          IN  /\ n # 0
              /\ tree[n].parent \notin DefNodes(query, tree)
              /\ NearestDefinition(query, tree, n) # 0
              /\ \E k \in Incoming(graph, i) : graph.edges[k].from # 0

\* C4: after fetch_symbols has returned, the records that follow the root
\* record it pushed are made of exactly the nodes get_definition recognizes,
\* one record a node, in pre-order.
C4_RecordsAreDefinitionsInPreOrder ==
    (pc = "idle" /\ graph.nodes # <<>>) =>
        NodesOf(SubSeq(graph.nodes, root_index + 2, Len(graph.nodes)))
            = PreOrder(tree, DefNodes(query, tree))

\* A definition directly below an ERROR node has its record in the graph,
\* and so has a definition that follows it.
C4_Witness ==
    /\ pc = "idle"
    /\ FreshGraph
    /\ \E i, j \in Indices(graph) :
          /\ i < j
          /\ node_at(graph, i).node # 0
          /\ tree[tree[node_at(graph, i).node].parent].kind = "ERROR"

\* C5: on a graph that was empty when fetch_symbols was called, the record
\* of index 0 is the root record: NORMAL, labelled with the file path, its
\* block the whole file text, level 0 and line 0.
C5_IndexZeroIsRootRecord ==
    FreshGraph =>
        /\ node_at(graph, 0).block_type = "NORMAL"
        /\ node_at(graph, 0).label = path
        /\ node_at(graph, 0).block = tree[1].text
        /\ node_at(graph, 0).level = 0
        /\ node_at(graph, 0).file_location = 0

\* fetch_symbols has returned on a Java file with a definition in it.
C5_Witness ==
    /\ pc = "idle"
    /\ FreshGraph
    /\ query = "JavaQuery"
    /\ Len(graph.nodes) >= 2

\* C6: the list fetch_calls returns holds one record for every node get_call
\* recognizes and no other, in pre-order of the nodes: a call comes before
\* the calls nested in it, and the calls below an earlier sibling before
\* those below a later one.
C6_CallsInPreOrder ==
    calls_path # <<>> =>
        /\ NodesOf(calls) = PreOrder(tree, CallNodes(query, tree))
        /\ \A k \in 1..Len(calls) :
              calls[k] = [get_call(query, tree, calls[k].node, calls[k].id)[1]
                            EXCEPT !.file_path = calls_path]

\* The list holds a call, after it a call nested in it and, after both, a
\* call below a later sibling.
C6_Witness ==
    /\ calls_path # <<>>
    /\ \E i, j, k \in 1..Len(calls) :
          /\ i < j
          /\ j < k
          /\ calls[i].node \in ProperAncestors(tree, calls[j].node)
          /\ calls[i].node \notin ProperAncestors(tree, calls[k].node)

\* C16: for a file with no token (its tree is the root node alone),
\* fetch_symbols on an empty graph leaves the root record alone and no
\* edge, and fetch_calls returns the empty list.
C16_EmptyFileGivesRootOnly ==
    Len(tree) = 1 =>
        /\ (FreshGraph /\ pc = "idle") =>
              (Len(graph.nodes) = 1 /\ graph.edges = <<>>)
        /\ calls_path # <<>> => calls = <<>>

\* Both walks have run on a file of white space.
C16_Witness ==
    /\ Len(tree) = 1
    /\ tree[1].text # <<>>
    /\ FreshGraph
    /\ pc = "idle"
    /\ Len(graph.nodes) = 1
    /\ node_at(graph, 0).block = tree[1].text
    /\ calls_path # <<>>

\* What two outlines of one text must share: the label, kind and level at
\* every index, and the edges. The root's label is the path argument of the
\* call and is left aside.
OutlineShape(g) ==
    [ nodes |-> [ i \in 1..Len(g.nodes) |->
                    [ label      |-> IF g.nodes[i].node = 0 THEN <<>>
                                     ELSE g.nodes[i].label,
                      block_type |-> g.nodes[i].block_type,
                      level      |-> g.nodes[i].level ] ],
      edges |-> g.edges ]

\* The graph g holds the records of one fetch_symbols call.
SingleRun(g) ==
    /\ g.nodes # <<>>
    /\ \A i \in 1..Len(g.nodes) : (g.nodes[i].node = 0) <=> (i = 1)

\* The labels of a call-site list, in order.
LabelsOf(records) == [ k \in 1..Len(records) |-> records[k].label ]

IsPrefix(s, t) == Len(s) <= Len(t) /\ \A i \in 1..Len(s) : s[i] = t[i]

\* C18: a step of the outline walk leaves every record and every edge of the
\* graph as it is and where it is; it only appends.
C18_OutlineWalkOnlyAppends ==
    [][pc = "outline" =>
          /\ IsPrefix(graph.nodes, graph'.nodes)
          /\ IsPrefix(graph.edges, graph'.edges)]_vars

\* The walk is under way in a graph that already holds records and edges.
C18_Witness ==
    /\ pc = "outline"
    /\ stack # <<>>
    /\ Len(graph.nodes) >= 3
    /\ Len(graph.edges) >= 2

\* C20: a definition with no enclosing definition hangs below the root
\* record that the fetch_symbols call which made it pushed.
C20_TopLevelDefinitionsHangBelowOwnRoot ==
    \A i \in Indices(graph) :
        (/\ node_at(graph, i).node # 0
         /\ NearestDefinition(query, tree, node_at(graph, i).node) = 0)
            => \A k \in Incoming(graph, i) :
                  graph.edges[k].from = RunRoot(graph, i)

----------------------------------------------------------------------------
(* Claims about the application (SpecApp).                                 *)

\* The extensions that have an adapter.
SupportedExts == {"rs", "c", "h", "java"}

\* The adapter registered for a supported extension.
AdapterOf(e) ==
    CASE e = "rs" -> "RustQuery"
      [] e = "java" -> "JavaQuery"
      [] e \in {"c", "h"} -> "CQuery"

\* The files of the project, each with its path and the place of discovery:
\* the rank of its top-level entry in the listing, then its rank in its
\* sub-directory (0 for a file of the project directory itself).
PlacedFiles ==
    UNION { IF project[i].is_dir
            THEN { [path |-> JoinPath(JoinPath(ProjectPath, project[i].name),
                                      project[i].children[j].name),
                    content |-> project[i].children[j].content,
                    top |-> i, sub |-> j] :
                   j \in 1..Len(project[i].children) }
            ELSE { [path |-> JoinPath(ProjectPath, project[i].name),
                    content |-> project[i].content, top |-> i, sub |-> 0] } :
            i \in 1..Len(project) }

\* File f is discovered before file g, or is g.
DiscoveredBefore(f, g) == f.top < g.top \/ (f.top = g.top /\ f.sub <= g.sub)

\* A record without its id.
WithoutId(record) == [record EXCEPT !.id = <<>>]

\* The call-site list of the file f, without ids.
CallsOfFile(f) ==
    LET q == AdapterOf(extension(f.path))
        found == fetch_calls(f.path, ParseContent(q, f.content), q, 0)
    IN  [ k \in 1..Len(found) |-> WithoutId(found[k]) ]

\* The records of the call index that come from the file at path p, in the
\* order of the index, without ids.
IndexPart(p) ==
    LET part == SelectSeq(call_nodes, LAMBDA r : r.file_path = p)
    IN  [ k \in 1..Len(part) |-> WithoutId(part[k]) ]

\* C13: once a scan has been received, the call index holds, for every file
\* with a supported extension, that file's call-site list in its own order,
\* the lists following each other in the order the files were discovered;
\* files with another extension have no record in it.
C13_CallIndexIsConcatenationInTraversalOrder ==
    app_tree.label # <<>> =>
        LET files == PlacedFiles
            place == [ i \in 1..Len(call_nodes) |->
                         CHOOSE f \in files : f.path = call_nodes[i].file_path ]
        IN  /\ \A i \in 1..Len(call_nodes) :
                  \E f \in files : f.path = call_nodes[i].file_path
            /\ \A f \in files :
                  IndexPart(f.path) = IF extension(f.path) \in SupportedExts
                                      THEN CallsOfFile(f) ELSE <<>>
            /\ \A i, j \in 1..Len(call_nodes) :
                  i <= j => DiscoveredBefore(place[i], place[j])

\* The index of a received scan holds the calls of a file of a
\* sub-directory and, after them, those of a file listed after the
\* sub-directory; a file without adapter was discovered between the two.
C13_Witness ==
    /\ app_tree.label # <<>>
    /\ Len(call_nodes) >= 2
    /\ \E f, g, h \in PlacedFiles :
          /\ f.path = call_nodes[1].file_path
          /\ h.path = call_nodes[Len(call_nodes)].file_path
          /\ f.sub > 0
          /\ extension(g.path) \notin SupportedExts
          /\ f.path # g.path /\ g.path # h.path /\ f.path # h.path
          /\ DiscoveredBefore(f, g)
          /\ DiscoveredBefore(g, h)

RECURSIVE WhitespaceTokens(_, _)
\* The maximal runs of characters other than white space in s, in order;
\* run is the run being read.
WhitespaceTokens(s, run) ==
    IF s = <<>> THEN (IF run = <<>> THEN <<>> ELSE <<run>>)
    ELSE IF Head(s) \in {" ", "\n", "\t"}
         THEN (IF run = <<>> THEN <<>> ELSE <<run>>) \o WhitespaceTokens(Tail(s), <<>>)
         ELSE WhitespaceTokens(Tail(s), Append(run, Head(s)))

\* The tokens of the label of the focused record.
FocusedTokens ==
    LET tokens == WhitespaceTokens(get_node(graph, graph.focus_node[1]).label, <<>>)
    IN  { tokens[k] : k \in 1..Len(tokens) }

\* C14: while a record is focused, the related-call list is the call index
\* restricted to the records whose label is a token of the focused record's
\* label: each of them once, in the order of the index.
C14_RelatedCallsAreMatchingIndexRecords ==
    graph.focus_node # None =>
        filter_call_nodes
            = SelectSeq(call_nodes, LAMBDA r : r.label \in FocusedTokens)

\* The paths of the files whose extension has no adapter.
UnsupportedPaths ==
    { f.path : f \in { g \in PlacedFiles : extension(g.path) \notin SupportedExts } }

\* Nothing in the graph and nothing in the call index comes from a file
\* whose extension has no adapter.
NothingOfUnsupportedFiles ==
    /\ \A i \in 1..Len(graph.nodes) :
          /\ graph.nodes[i].label \notin UnsupportedPaths
          /\ graph.nodes[i].file_path \notin UnsupportedPaths
    /\ \A i \in 1..Len(call_nodes) : call_nodes[i].file_path \notin UnsupportedPaths

\* C15: selecting a file whose extension has no adapter shows the dialog and
\* does nothing else: no parse, no change of the graph, the call index or
\* the current record; selecting any other file shows no dialog and
\* starts a graph with the root record of the file. No record ever comes
\* from a file without adapter.
C15_UnsupportedSelectionIsSignalled ==
    /\ [](NothingOfUnsupportedFiles
          /\ (dialog = "unsupported" => ext \notin SupportedExts))
    /\ [][\A name \in AllPaths :
            SelectFile(name) =>
                IF extension(name) \in SupportedExts
                THEN /\ dialog' = ""
                     /\ Len(graph'.nodes) = 1
                     /\ graph'.nodes[1].label = name
                ELSE /\ dialog' = "unsupported"
                     /\ UNCHANGED <<graph, tree, query, fetches, call_nodes,
                                    current_node, filter_call_nodes>>]_vars

\* A file without adapter was selected while the graph of an empty file
\* was shown: the dialog is up, the graph is still that of the empty file.
C15_Witness ==
    /\ dialog = "unsupported"
    /\ ext = "py"
    /\ pc = "idle"
    /\ Len(tree) = 1
    /\ Len(graph.nodes) = 1
    /\ extension(graph.nodes[1].label) = "rs"

\* C19: the graph is empty or holds the records of one fetch_symbols call,
\* that of the last selection of a supported file: its root record, and,
\* once the walk is over, the definitions of that file and nothing else.
C19_GraphHoldsOneFile ==
    graph.nodes = <<>>
    \/ /\ SingleRun(graph)
       /\ node_at(graph, 0).label = path
       /\ \A i \in 1..Len(graph.nodes) : graph.nodes[i].id[2] = fetches - 1
       /\ pc = "idle" =>
             NodesOf(Tail(graph.nodes)) = PreOrder(tree, DefNodes(query, tree))

\* A second file has been selected after a first; the graph holds its root
\* and its definition.
C19_Witness ==
    /\ pc = "idle"
    /\ fetches = 2
    /\ Len(graph.nodes) = 2
    /\ graph.nodes[2].file_path = path
    /\ call_nodes # <<>>

\* C21: no worker thread fails at its send: whenever a worker reaches
\* tx.send, the receiver of its own channel still exists, also when a newer
\* scan has replaced the stored receiver before the worker finished.
C21_WorkerSendNeverFails ==
    \A k \in 1..Len(scans) : scans[k].state # "panicked"

\* C22: once a scan has been started, the application eventually takes a
\* result from the channel and clears the pending receiver, so that the
\* spinner stops; also when the worker ends without sending.
C22_PendingReceiverIsEventuallyCleared ==
    [](rx # None => <>(rx = None))

\* The file tree shown and the call index are the two parts of the result
\* of the k-th scan, which the application has received.
ShowsScan(k) ==
    /\ scans[k].state = "received"
    /\ LET result == scan_result(scans[k].dir, project, k)
       IN  /\ app_tree = result.tree
           /\ call_nodes = result.calls

\* C23: the file tree shown and the call index always come from one and the
\* same scan (or are both still empty, before the first result), and while
\* no receiver is pending they are those of the scan started last.
C23_TreeAndIndexComeFromTheLatestScan ==
    /\ \/ app_tree = Tree_new(<<>>, <<>>, "File") /\ call_nodes = <<>>
       \/ \E k \in 1..Len(scans) : ShowsScan(k)
    /\ (rx = None /\ scans # <<>>) => ShowsScan(Len(scans))

\* A second folder pick replaced the receiver before the first worker sent;
\* the result of the second scan, with calls in it, has been received.
C23_Witness ==
    /\ Len(scans) = 2
    /\ scans[1].state = "panicked"
    /\ ShowsScan(2)
    /\ call_nodes # <<>>
    /\ rx = None

\* The tokens of the label of the current record.
CurrentTokens ==
    LET tokens == WhitespaceTokens(current_node.label, <<>>)
    IN  { tokens[k] : k \in 1..Len(tokens) }

\* C24: the related-call list the right panel draws belongs to the current
\* record: each of its records has a label that is a token of the current
\* record's label, so that it is empty once the selection of another file
\* has reset the current record.
C24_RelatedCallsBelongToCurrentRecord ==
    \A i \in 1..Len(filter_call_nodes) :
        filter_call_nodes[i].label \in CurrentTokens

\* C25: every index the graph stores is the index of a record it holds:
\* the focus index when there is one, and both endpoints of every edge.
C25_StoredIndicesAreValid ==
    /\ \A i \in 1..Len(graph.focus_node) : graph.focus_node[i] \in Indices(graph)
    /\ \A i \in 1..Len(graph.edges) :
          /\ graph.edges[i].from \in Indices(graph)
          /\ graph.edges[i].to \in Indices(graph)

\* C26: the saved root path survives a restart: when the application was
\* started from a saved app_state and no folder has been picked since (so
\* that root_path, which only a pick sets, is still empty), the app_state it
\* saves at its end has the root_path of the one it loaded.
C26_RootPathRoundTrips ==
    [][(storage # None /\ root_path = <<>>)
          => (storage' # None /\ storage'[1].root_path = storage[1].root_path)]_vars

----------------------------------------------------------------------------
(* Claims about the adapters (SpecAdapter).                                *)

\* The kind of a call expression, the field that holds its callee, and the
\* fields that hold the member named by a callee, in the adapter's grammar.
CallKind(q) == IF q = "JavaQuery" THEN "method_invocation" ELSE "call_expression"

CalleeField(q) == IF q = "JavaQuery" THEN "name" ELSE "function"

MemberFields(q) ==
    CASE q = "JsQuery" -> {"property"}
      [] q \in {"RustQuery", "CQuery"} -> {"field"}
      [] q = "JavaQuery" -> {}

\* The first child of node n held under one of the fields F (0: none).
FirstUnder(t, n, F) ==
    LET hits == { c \in 1..Len(t) : t[c].parent = n /\ t[c].field \in F }
    IN  IF hits = {} THEN 0 ELSE MinOf(hits)

\* The node that names the callee of call node n (0: no callee).
NamingNode(q, t, n) ==
    LET fe == FirstUnder(t, n, {CalleeField(q)})
    IN  IF fe = 0 THEN 0
        ELSE IF FirstUnder(t, fe, MemberFields(q)) # 0
             THEN FirstUnder(t, fe, MemberFields(q))
             ELSE fe

\* C7: get_call answers a call expression with a callee by a CALL record
\* labelled with the text of the callee's member sub-field when it has one
\* and of the callee itself otherwise, the line being that node's 1-based
\* start line; it answers every other node with nothing.
C7_CallLabelIsMemberOrCallee ==
    pc = "calls" =>
        \A n \in 1..Len(tree) :
            IF tree[n].kind = CallKind(query) /\ NamingNode(query, tree, n) # 0
            THEN /\ call_out[n] # None
                 /\ call_out[n][1].block_type = "CALL"
                 /\ call_out[n][1].block = tree[n].text
                 /\ call_out[n][1].label = tree[NamingNode(query, tree, n)].text
                 /\ call_out[n][1].file_location
                        = tree[NamingNode(query, tree, n)].row + 1
            ELSE call_out[n] = None

\* get_call has answered the call obj.method(..): the label is method, the
\* line that of method, which is not the line the callee starts at.
C7_Witness ==
    /\ pc = "calls"
    /\ query = "RustQuery"
    /\ \E n \in 1..Len(tree) :
          /\ call_out[n] # None
          /\ call_out[n][1].label = <<"m", "e", "t", "h", "o", "d">>
          /\ tree[FirstUnder(tree, n, {"function"})].text
                = <<"o", "b", "j", "\n", "m", "e", "t", "h", "o", "d">>
          /\ call_out[n][1].file_location
                # tree[FirstUnder(tree, n, {"function"})].row + 1

\* C8: get_symbol_query gives no adapter for an extension that
\* valid_file_extention does not list.
C8_UnregisteredExtensionYieldsNoAdapter ==
    (pc = "selected" /\ ~valid_file_extention(ext)) => query \notin Queries

\* The (definitionKind, terminatorKind) table of the adapter.
DefinitionTable(q) ==
    CASE q = "JsQuery" -> JsQuery_definition_list
      [] q = "CQuery" -> CQuery_definition_list
      [] q = "JavaQuery" -> JavaQuery_definition_list
      [] q = "RustQuery" -> RustQuery_definition_list

\* The texts of the children of node n that come before its first child of
\* kind end_type, in order.
Fragments(t, n, end_type) ==
    LET kids == children(t, n)
        stops == { k \in 1..Len(kids) : t[kids[k]].kind = end_type }
        last == IF stops = {} THEN Len(kids) ELSE MinOf(stops) - 1
    IN  [ k \in 1..last |-> t[kids[k]].text ]

RECURSIVE JoinWithSpace(_)
\* The fragments with one space between consecutive ones and none after the last.
JoinWithSpace(fragments) ==
    IF fragments = <<>> THEN <<>>
    ELSE IF Len(fragments) = 1 THEN fragments[1]
    ELSE fragments[1] \o <<" ">> \o JoinWithSpace(Tail(fragments))

\* C9: the label of a node whose kind is in the adapter's table is the texts
\* of its children before the first child of the terminator kind, joined by
\* one space, with nothing after the last text. (The C adapter, which cuts
\* the label afterwards, is left aside.)
C9_LabelIsFragmentsJoinedBySpace ==
    (pc = "definitions" /\ query # "CQuery") =>
        \A n \in 1..Len(tree) :
            LET entry == first_match(DefinitionTable(query), tree[n].kind)
            IN  entry # None =>
                    /\ def_out[n] # None
                    /\ def_out[n][1].label
                          = JoinWithSpace(Fragments(tree, n, entry[1][2]))

\* C10: the C adapter labels a definition "bad symbol" whenever the part of
\* the concatenated child texts before their first "(" is empty; stated for
\* the concatenations that begin with "(".
C10_EmptyTruncationGivesPlaceholder ==
    (pc = "definitions" /\ query = "CQuery") =>
        \A n \in 1..Len(tree) :
            LET output == push_children(tree, children(tree, n), "compound_statement")
            IN  (def_out[n] # None /\ output # <<>> /\ Head(output) = "(") =>
                    /\ def_out[n][1].label = bad_symbol
                    /\ def_out[n][1].label # <<>>

\* C11: the C adapter answers every function_definition with one FUNCTION
\* record whose label is the texts of the children before the body, joined
\* by single spaces, up to their first "(".
C11_CLabelIsJoinedTextsBeforeParenthesis ==
    (pc = "definitions" /\ query = "CQuery") =>
        \A n \in 1..Len(tree) :
            tree[n].kind = "function_definition" =>
                /\ def_out[n] # None
                /\ def_out[n][1].block_type = "FUNCTION"
                /\ def_out[n][1].label
                      = take_until(JoinWithSpace(
                                       Fragments(tree, n, "compound_statement")),
                                   "(")

\* The nodes below node n, n included, that declare a variable: identifiers
\* and the shorthand identifiers of a pattern, in order.
BoundNames(t, n) ==
    SelectSeq([i \in 1..Len(t) |-> i],
              LAMBDA i : /\ n \in ProperAncestors(t, i) \cup {i}
                         /\ t[i].kind \in {"identifier",
                                           "shorthand_property_identifier_pattern"})

RECURSIVE DeclaredNames(_, _)
\* The names of the variables the declarators kids declare, in order.
DeclaredNames(t, kids) ==
    IF kids = <<>> THEN <<>>
    ELSE LET name == FirstUnder(t, Head(kids), {"name"})
             bound == IF t[Head(kids)].kind = "variable_declarator" /\ name # 0
                      THEN BoundNames(t, name) ELSE <<>>
         IN  [ i \in 1..Len(bound) |-> t[bound[i]].text ]
             \o DeclaredNames(t, Tail(kids))

\* C12: the JS adapter answers a lexical declaration with a CONST record
\* exactly when its parent is the program root; the label is the keyword and
\* the names of the declared variables in order, joined by single spaces.
C12_TopLevelLexicalDeclarationIsConst ==
    (pc = "definitions" /\ query = "JsQuery") =>
        \A n \in 1..Len(tree) :
            tree[n].kind = "lexical_declaration" =>
                IF tree[n].parent # 0 /\ tree[tree[n].parent].kind = "program"
                THEN /\ def_out[n] # None
                     /\ def_out[n][1].block_type = "CONST"
                     /\ def_out[n][1].label
                           = JoinWithSpace(
                                 << tree[FirstUnder(tree, n, {"kind"})].text >>
                                 \o DeclaredNames(tree, children(tree, n)))
                ELSE def_out[n] = None

====
